---- MODULE Spec2Model ----
(***************************************************************************)
(* Model of LedBlinker/Top/LedBlinkerTopology.cpp: the topology bring-up   *)
(* and tear-down sequences (setupTopology, configureTopology,              *)
(* teardownTopology) run by the main thread, and the simulated 1Hz cycle   *)
(* (startSimulatedCycle, stopSimulatedCycle) shared between the cycling    *)
(* thread and the threads that request a stop.                             *)
(*                                                                         *)
(* Every statement of the file that calls into a component is one step of  *)
(* the thread that executes it; the step appends the callee's name to      *)
(* `calls`, the call trace of the invocation in progress.                  *)
(***************************************************************************)
EXTENDS Integers, Sequences, FiniteSets, TLC

(* ------------------------------ bounds -------------------------------- *)
\* calls of setupTopology / teardownTopology made by the main program
MaxOps == 3
\* calls of startSimulatedCycle made by the cycling thread
MaxStarts == 2
\* calls of stopSimulatedCycle made by each stopping thread
MaxStops == 2
\* the per-invocation tick and sleep counters saturate here
MaxTicks == 3

(* ------------------------------ inputs -------------------------------- *)
\* const char* hostname: the null pointer, the empty string, a host name
NULL == "nullptr"
Hostnames == {NULL, "", "127.0.0.1"}
Ports == {0, 50000}
TopologyState == [hostname : Hostnames, port : Ports]
\* U32 milliseconds
Periods == {100, 1000}
\* threads that call stopSimulatedCycle
Stoppers == {"stopA", "stopB"}
\* the two allocations made through mallocator
Resources == {"cmdSeqBuffer", "uplinkBufferPool"}

VARIABLES
    pc,           \* main thread: the statement it executes next
    op,           \* main thread: the function it is inside
    state,        \* the TopologyState argument of the call in progress
    calls,        \* calls made by the current (or the last) invocation
    history,      \* the invocations that have returned, in order
    allocated,    \* per resource: is it allocated now
    allocFailed,  \* resources whose allocation failed in the last setup
    activeTasks,  \* tasks of the active components
    socketTask,   \* the comm receive task
    commEndpoint, \* what comm.configure was last given
    gpio_success, \* configureTopology's local
    cycleFlag,    \* volatile bool cycleFlag
    cycleLock,    \* Os::Mutex cycleLock: who holds it
    cpc,          \* cycling thread: the statement it executes next
    milliseconds, \* startSimulatedCycle's argument
    cycling,      \* startSimulatedCycle's local
    starts,       \* calls of startSimulatedCycle so far
    ticks,        \* blockDrv.callIsr calls of this invocation
    sleeps,       \* Os::Task::delay calls of this invocation
    spc,          \* per stopping thread: the statement it executes next
    stops,        \* per stopping thread: calls of stopSimulatedCycle so far
    stopReturned, \* some call of stopSimulatedCycle has returned
    ticksAfterStop,  \* callIsr calls of this invocation made after that
    sleepsAfterStop, \* delay calls of this invocation made after that
    startedAfterStop, \* this invocation began after a stop had returned
    rateGroupDivisors \* NATIVE_INT_TYPE rateGroupDivisors[]

topVars == <<pc, op, state, calls, history, allocated, allocFailed,
             activeTasks, socketTask, commEndpoint, gpio_success>>
cycleVars == <<cycleFlag, cycleLock, cpc, milliseconds, cycling, starts,
               ticks, sleeps, spc, stops, stopReturned, ticksAfterStop,
               sleepsAfterStop, startedAfterStop>>
configVars == <<rateGroupDivisors>>
vars == <<topVars, cycleVars, configVars>>

NoEndpoint == [hostname |-> NULL, port |-> 0]

\* the process before main runs, whatever the divisor list
Boot ==
    /\ pc = "idle"
    /\ op = "none"
    /\ state = NoEndpoint
    /\ calls = <<>>
    /\ history = <<>>
    /\ allocated = [r \in Resources |-> FALSE]
    /\ allocFailed = {}
    /\ activeTasks = "stopped"
    /\ socketTask = "stopped"
    /\ commEndpoint = NoEndpoint
    /\ gpio_success = TRUE
    /\ cycleFlag = TRUE
    /\ cycleLock = "free"
    /\ cpc = "idle"
    /\ milliseconds = 100
    /\ cycling = FALSE
    /\ starts = 0
    /\ ticks = 0
    /\ sleeps = 0
    /\ spc = [s \in Stoppers |-> "idle"]
    /\ stops = [s \in Stoppers |-> 0]
    /\ stopReturned = FALSE
    /\ ticksAfterStop = 0
    /\ sleepsAfterStop = 0
    /\ startedAfterStop = FALSE

\* rateGroupDivisors[] = {1, 2, 4}
ReferenceDivisors == <<1, 2, 4>>

Init ==
    /\ Boot
    /\ rateGroupDivisors = ReferenceDivisors

(* ---------------------- main thread: the program --------------------- *)
\* the statements of configureTopology, in the order of the text
configureTopologyBody ==
    << "cmdSeq.allocateBuffer",
       "rateGroupDriver.configure",
       "rateGroup1.configure",
       "rateGroup2.configure",
       "rateGroup3.configure",
       "fileDownlink.configure",
       "prmDb.configure",
       "prmDb.readParamFile",
       "health.setPingEntries",
       "fileUplinkBufferManager.setup",
       "downlink.setup",
       "uplink.setup",
       "gpioDriver.open",
       "if gpio_success" >>

\* setupTopology with the tasks started before configureTopology is called
setupTopologyBody_startFirst ==
    << "initComponents", "setBaseIds", "connectComponents", "regCommands",
       "startTasks" >>
    \o configureTopologyBody
    \o << "if valid specification", "comm.configure", "comm.startSocketTask" >>

\* the statements of setupTopology, configureTopology inlined
setupTopologyBody ==
    << "initComponents", "setBaseIds", "connectComponents", "regCommands" >>
    \o configureTopologyBody
    \o << "startTasks", "if valid specification", "comm.configure",
          "comm.startSocketTask" >>

\* teardownTopology without the clean-up of the uplink buffer manager
teardownTopologyBody_noCleanup ==
    << "stopTasks", "freeThreads", "comm.stopSocketTask",
       "comm.joinSocketTask", "cmdSeq.deallocateBuffer" >>

\* teardownTopology with its two releases exchanged
teardownTopologyBody_swapRelease ==
    << "stopTasks", "freeThreads", "comm.stopSocketTask",
       "comm.joinSocketTask", "fileUplinkBufferManager.cleanup",
       "cmdSeq.deallocateBuffer" >>

\* teardownTopology with the releases ahead of the task clean-up
teardownTopologyBody_releaseFirst ==
    << "cmdSeq.deallocateBuffer", "fileUplinkBufferManager.cleanup",
       "stopTasks", "freeThreads", "comm.stopSocketTask",
       "comm.joinSocketTask" >>

\* teardownTopology without the join of the socket task
teardownTopologyBody_noJoin ==
    << "stopTasks", "freeThreads", "comm.stopSocketTask",
       "cmdSeq.deallocateBuffer", "fileUplinkBufferManager.cleanup" >>

\* the statements of teardownTopology
teardownTopologyBody ==
    << "stopTasks",
       "freeThreads",
       "comm.stopSocketTask",
       "comm.joinSocketTask",
       "cmdSeq.deallocateBuffer",
       "fileUplinkBufferManager.cleanup" >>

Body(o) == IF o = "setup" THEN setupTopologyBody ELSE teardownTopologyBody

\* the first place of x in seq, 0 when it is not there
Index(seq, x) ==
    IF \E i \in 1..Len(seq) : seq[i] = x
    THEN CHOOSE i \in 1..Len(seq) :
             seq[i] = x /\ \A j \in 1..(i - 1) : seq[j] # x
    ELSE 0

\* how often x is in seq
Count(seq, x) == Cardinality({i \in 1..Len(seq) : seq[i] = x})

\* the statement that follows stmt in the function in progress
After(stmt) ==
    LET body == Body(op)
        i == Index(body, stmt)
    IN IF i < Len(body) THEN body[i + 1] ELSE "return"

\* the function in progress returns to the main program
Return ==
    /\ pc' = "idle"
    /\ op' = "none"
    /\ history' = Append(history, op)

\* control passes to the statement after stmt
Advance(stmt) ==
    IF After(stmt) = "return"
    THEN Return
    ELSE /\ pc' = After(stmt)
         /\ UNCHANGED <<op, history>>

\* the statement stmt, a call of the function it names
Step(stmt) ==
    /\ pc = stmt
    /\ calls' = Append(calls, stmt)
    /\ Advance(stmt)

\* a call into a component whose state the model does not follow
Call(stmt) ==
    /\ Step(stmt)
    /\ UNCHANGED <<state, allocated, allocFailed, activeTasks, socketTask,
                   commEndpoint, gpio_success, cycleVars, configVars>>

(* --------------------------- setupTopology ---------------------------- *)
setupTopology(s) ==
    /\ pc = "idle"
    /\ Len(history) < MaxOps
    /\ pc' = setupTopologyBody[1]
    /\ op' = "setup"
    /\ state' = s
    /\ calls' = <<>>
    /\ allocFailed' = {}
    /\ UNCHANGED <<history, allocated, activeTasks, socketTask,
                   commEndpoint, gpio_success, cycleVars, configVars>>

initComponents == Call("initComponents")
setBaseIds == Call("setBaseIds")
connectComponents == Call("connectComponents")
regCommands == Call("regCommands")

(* -------------------------- configureTopology ------------------------- *)
\* the allocator may fail (ok = FALSE); allocateBuffer returns void
cmdSeq_allocateBuffer(ok) ==
    /\ Step("cmdSeq.allocateBuffer")
    /\ allocated' = [allocated EXCEPT !["cmdSeqBuffer"] = ok]
    /\ allocFailed' = IF ok THEN allocFailed
                      ELSE allocFailed \cup {"cmdSeqBuffer"}
    /\ UNCHANGED <<state, activeTasks, socketTask, commEndpoint,
                   gpio_success, cycleVars, configVars>>

rateGroupDriver_configure == Call("rateGroupDriver.configure")
rateGroup1_configure == Call("rateGroup1.configure")
rateGroup2_configure == Call("rateGroup2.configure")
rateGroup3_configure == Call("rateGroup3.configure")
fileDownlink_configure == Call("fileDownlink.configure")
prmDb_configure == Call("prmDb.configure")
prmDb_readParamFile == Call("prmDb.readParamFile")
health_setPingEntries == Call("health.setPingEntries")

\* the allocator may fail (ok = FALSE); setup returns void
fileUplinkBufferManager_setup(ok) ==
    /\ Step("fileUplinkBufferManager.setup")
    /\ allocated' = [allocated EXCEPT !["uplinkBufferPool"] = ok]
    /\ allocFailed' = IF ok THEN allocFailed
                      ELSE allocFailed \cup {"uplinkBufferPool"}
    /\ UNCHANGED <<state, activeTasks, socketTask, commEndpoint,
                   gpio_success, cycleVars, configVars>>

downlink_setup == Call("downlink.setup")
uplink_setup == Call("uplink.setup")

\* bool gpio_success = gpioDriver.open(13, GPIO_OUT);
gpioDriver_open(ok) ==
    /\ Step("gpioDriver.open")
    /\ gpio_success' = ok
    /\ UNCHANGED <<state, allocated, allocFailed, activeTasks, socketTask,
                   commEndpoint, cycleVars, configVars>>

\* the GPIO failure treated as fatal: setupTopology returns after the printf
gpioCheck_abort ==
    /\ pc = "if gpio_success"
    /\ calls' = IF ~gpio_success THEN Append(calls, "printf") ELSE calls
    /\ IF ~gpio_success THEN Return ELSE Advance("if gpio_success")
    /\ UNCHANGED <<state, allocated, allocFailed, activeTasks, socketTask,
                   commEndpoint, gpio_success, cycleVars, configVars>>

\* if (!gpio_success) { printf(...); }  and configureTopology returns
gpioCheck ==
    /\ pc = "if gpio_success"
    /\ calls' = IF ~gpio_success THEN Append(calls, "printf") ELSE calls
    /\ Advance("if gpio_success")
    /\ UNCHANGED <<state, allocated, allocFailed, activeTasks, socketTask,
                   commEndpoint, gpio_success, cycleVars, configVars>>

(* --------------------- setupTopology, continued ----------------------- *)
startTasks ==
    /\ Step("startTasks")
    /\ activeTasks' = "running"
    /\ UNCHANGED <<state, allocated, allocFailed, socketTask, commEndpoint,
                   gpio_success, cycleVars, configVars>>

\* the condition without its null-pointer test
ValidSpecification_portOnly(s) == s.port # 0

\* state.hostname != nullptr && state.port != 0
ValidSpecification(s) == s.hostname # NULL /\ s.port # 0

\* if (...) { comm.configure; comm.startSocketTask }  else the function returns
socketCheck ==
    /\ pc = "if valid specification"
    /\ IF ValidSpecification(state)
       THEN Advance("if valid specification")
       ELSE Return
    /\ UNCHANGED <<state, calls, allocated, allocFailed, activeTasks,
                   socketTask, commEndpoint, gpio_success, cycleVars, configVars>>

comm_configure ==
    /\ Step("comm.configure")
    /\ commEndpoint' = state
    /\ UNCHANGED <<state, allocated, allocFailed, activeTasks, socketTask,
                   gpio_success, cycleVars, configVars>>

comm_startSocketTask ==
    /\ Step("comm.startSocketTask")
    /\ socketTask' = "running"
    /\ UNCHANGED <<state, allocated, allocFailed, activeTasks, commEndpoint,
                   gpio_success, cycleVars, configVars>>

(* -------------------------- teardownTopology -------------------------- *)
teardownTopology(s) ==
    /\ pc = "idle"
    /\ Len(history) < MaxOps
    /\ pc' = teardownTopologyBody[1]
    /\ op' = "teardown"
    /\ state' = s
    /\ calls' = <<>>
    /\ UNCHANGED <<history, allocated, allocFailed, activeTasks, socketTask,
                   commEndpoint, gpio_success, cycleVars, configVars>>

\* asks the tasks of the active components to exit
stopTasks ==
    /\ Step("stopTasks")
    /\ activeTasks' = IF activeTasks = "running" THEN "stopping" ELSE activeTasks
    /\ UNCHANGED <<state, allocated, allocFailed, socketTask, commEndpoint,
                   gpio_success, cycleVars, configVars>>

\* joins them
freeThreads ==
    /\ Step("freeThreads")
    /\ activeTasks' = IF activeTasks = "stopping" THEN "stopped" ELSE activeTasks
    /\ UNCHANGED <<state, allocated, allocFailed, socketTask, commEndpoint,
                   gpio_success, cycleVars, configVars>>

comm_stopSocketTask ==
    /\ Step("comm.stopSocketTask")
    /\ socketTask' = IF socketTask = "running" THEN "stopping" ELSE socketTask
    /\ UNCHANGED <<state, allocated, allocFailed, activeTasks, commEndpoint,
                   gpio_success, cycleVars, configVars>>

comm_joinSocketTask ==
    /\ Step("comm.joinSocketTask")
    /\ socketTask' = IF socketTask = "stopping" THEN "stopped" ELSE socketTask
    /\ UNCHANGED <<state, allocated, allocFailed, activeTasks, commEndpoint,
                   gpio_success, cycleVars, configVars>>

cmdSeq_deallocateBuffer ==
    /\ Step("cmdSeq.deallocateBuffer")
    /\ allocated' = [allocated EXCEPT !["cmdSeqBuffer"] = FALSE]
    /\ UNCHANGED <<state, allocFailed, activeTasks, socketTask, commEndpoint,
                   gpio_success, cycleVars, configVars>>

fileUplinkBufferManager_cleanup ==
    /\ Step("fileUplinkBufferManager.cleanup")
    /\ allocated' = [allocated EXCEPT !["uplinkBufferPool"] = FALSE]
    /\ UNCHANGED <<state, allocFailed, activeTasks, socketTask, commEndpoint,
                   gpio_success, cycleVars, configVars>>

(* ------------------------- startSimulatedCycle ------------------------ *)
\* a saturating counter
Bump(n) == IF n < MaxTicks THEN n + 1 ELSE n

\* a lock that does not wait for its holder
Lock_noWait(t) == cycleLock' = t

\* cycleLock.lock(): blocks until the mutex is free
Lock(t) ==
    /\ cycleLock = "free"
    /\ cycleLock' = t

\* cycleLock.unLock()
UnLock(t) ==
    /\ cycleLock = t
    /\ cycleLock' = "free"

\* a read that does not see the store of another thread
ReadFlag_stale == TRUE

\* the value a read of cycleFlag yields
ReadFlag == cycleFlag

\* a stop that flips the flag
StoppedValue_toggle == ~cycleFlag

\* the value stopSimulatedCycle stores into cycleFlag
StoppedValue == FALSE

\* a start that sets the flag again
startSimulatedCycle_reset(ms) ==
    /\ cpc = "idle"
    /\ starts < MaxStarts
    /\ cpc' = "lock"
    /\ milliseconds' = ms
    /\ starts' = starts + 1
    /\ cycling' = FALSE
    /\ ticks' = 0
    /\ sleeps' = 0
    /\ ticksAfterStop' = 0
    /\ sleepsAfterStop' = 0
    /\ startedAfterStop' = stopReturned
    /\ cycleFlag' = TRUE
    /\ UNCHANGED <<cycleLock, spc, stops, stopReturned, topVars, configVars>>

startSimulatedCycle(ms) ==
    /\ cpc = "idle"
    /\ starts < MaxStarts
    /\ cpc' = "lock"
    /\ milliseconds' = ms
    /\ starts' = starts + 1
    /\ cycling' = FALSE
    /\ ticks' = 0
    /\ sleeps' = 0
    /\ ticksAfterStop' = 0
    /\ sleepsAfterStop' = 0
    /\ startedAfterStop' = stopReturned
    /\ UNCHANGED <<cycleFlag, cycleLock, spc, stops, stopReturned, topVars, configVars>>

\* line 153
cycle_lock ==
    /\ cpc = "lock"
    /\ Lock("cycle")
    /\ cpc' = "read"
    /\ UNCHANGED <<cycleFlag, milliseconds, cycling, starts, ticks, sleeps,
                   spc, stops, stopReturned, ticksAfterStop,
                   sleepsAfterStop, startedAfterStop, topVars, configVars>>

\* the loop entered without looking at the flag
cycle_read_assumeTrue ==
    /\ cpc = "read"
    /\ cycling' = TRUE
    /\ cpc' = "unLock"
    /\ UNCHANGED <<cycleFlag, cycleLock, milliseconds, starts, ticks, sleeps,
                   spc, stops, stopReturned, ticksAfterStop,
                   sleepsAfterStop, startedAfterStop, topVars, configVars>>

\* line 154: bool cycling = cycleFlag;
cycle_read ==
    /\ cpc = "read"
    /\ cycling' = ReadFlag
    /\ cpc' = "unLock"
    /\ UNCHANGED <<cycleFlag, cycleLock, milliseconds, starts, ticks, sleeps,
                   spc, stops, stopReturned, ticksAfterStop,
                   sleepsAfterStop, startedAfterStop, topVars, configVars>>

\* line 155
cycle_unLock ==
    /\ cpc = "unLock"
    /\ UnLock("cycle")
    /\ cpc' = "while"
    /\ UNCHANGED <<cycleFlag, milliseconds, cycling, starts, ticks, sleeps,
                   spc, stops, stopReturned, ticksAfterStop,
                   sleepsAfterStop, startedAfterStop, topVars, configVars>>

\* a loop that does not test its condition
cycle_while_forever ==
    /\ cpc = "while"
    /\ cpc' = "callIsr"
    /\ UNCHANGED <<cycleFlag, cycleLock, milliseconds, cycling, starts, ticks,
                   sleeps, spc, stops, stopReturned, ticksAfterStop,
                   sleepsAfterStop, startedAfterStop, topVars, configVars>>

\* line 158: while (cycling); the function returns when it is false
cycle_while ==
    /\ cpc = "while"
    /\ cpc' = IF cycling THEN "callIsr" ELSE "idle"
    /\ UNCHANGED <<cycleFlag, cycleLock, milliseconds, cycling, starts, ticks,
                   sleeps, spc, stops, stopReturned, ticksAfterStop,
                   sleepsAfterStop, startedAfterStop, topVars, configVars>>

\* line 159: LedBlinker::blockDrv.callIsr();
cycle_callIsr ==
    /\ cpc = "callIsr"
    /\ ticks' = Bump(ticks)
    /\ ticksAfterStop' = IF stopReturned THEN Bump(ticksAfterStop)
                         ELSE ticksAfterStop
    /\ cpc' = "delay"
    /\ UNCHANGED <<cycleFlag, cycleLock, milliseconds, cycling, starts,
                   sleeps, spc, stops, stopReturned, sleepsAfterStop, startedAfterStop, topVars, configVars>>

\* line 160: Os::Task::delay(milliseconds);
cycle_delay ==
    /\ cpc = "delay"
    /\ sleeps' = Bump(sleeps)
    /\ sleepsAfterStop' = IF stopReturned THEN Bump(sleepsAfterStop)
                          ELSE sleepsAfterStop
    /\ cpc' = "lock in loop"
    /\ UNCHANGED <<cycleFlag, cycleLock, milliseconds, cycling, starts,
                   ticks, spc, stops, stopReturned, ticksAfterStop, startedAfterStop, topVars, configVars>>

\* line 162
cycle_loop_lock ==
    /\ cpc = "lock in loop"
    /\ Lock("cycle")
    /\ cpc' = "read in loop"
    /\ UNCHANGED <<cycleFlag, milliseconds, cycling, starts, ticks, sleeps,
                   spc, stops, stopReturned, ticksAfterStop,
                   sleepsAfterStop, startedAfterStop, topVars, configVars>>

\* the re-read left out: cycling keeps its value
cycle_loop_read_skip ==
    /\ cpc = "read in loop"
    /\ cpc' = "unLock in loop"
    /\ UNCHANGED <<cycleFlag, cycleLock, milliseconds, cycling, starts, ticks,
                   sleeps, spc, stops, stopReturned, ticksAfterStop,
                   sleepsAfterStop, startedAfterStop, topVars, configVars>>

\* line 163: cycling = cycleFlag;
cycle_loop_read ==
    /\ cpc = "read in loop"
    /\ cycling' = ReadFlag
    /\ cpc' = "unLock in loop"
    /\ UNCHANGED <<cycleFlag, cycleLock, milliseconds, starts, ticks, sleeps,
                   spc, stops, stopReturned, ticksAfterStop,
                   sleepsAfterStop, startedAfterStop, topVars, configVars>>

\* line 164
cycle_loop_unLock ==
    /\ cpc = "unLock in loop"
    /\ UnLock("cycle")
    /\ cpc' = "while"
    /\ UNCHANGED <<cycleFlag, milliseconds, cycling, starts, ticks, sleeps,
                   spc, stops, stopReturned, ticksAfterStop,
                   sleepsAfterStop, startedAfterStop, topVars, configVars>>

(* -------------------------- stopSimulatedCycle ------------------------ *)
stopSimulatedCycle(t) ==
    /\ spc[t] = "idle"
    /\ stops[t] < MaxStops
    /\ spc' = [spc EXCEPT ![t] = "lock"]
    /\ stops' = [stops EXCEPT ![t] = @ + 1]
    /\ UNCHANGED <<cycleFlag, cycleLock, cpc, milliseconds, cycling, starts,
                   ticks, sleeps, stopReturned, ticksAfterStop,
                   sleepsAfterStop, startedAfterStop, topVars, configVars>>

\* line 169
stop_lock(t) ==
    /\ spc[t] = "lock"
    /\ Lock(t)
    /\ spc' = [spc EXCEPT ![t] = "write"]
    /\ UNCHANGED <<cycleFlag, cpc, milliseconds, cycling, starts, ticks,
                   sleeps, stops, stopReturned, ticksAfterStop,
                   sleepsAfterStop, startedAfterStop, topVars, configVars>>

\* line 170: cycleFlag = false;
stop_write(t) ==
    /\ spc[t] = "write"
    /\ cycleFlag' = StoppedValue
    /\ spc' = [spc EXCEPT ![t] = "unLock"]
    /\ UNCHANGED <<cycleLock, cpc, milliseconds, cycling, starts, ticks,
                   sleeps, stops, stopReturned, ticksAfterStop,
                   sleepsAfterStop, startedAfterStop, topVars, configVars>>

\* a stop that waits for the loop to have returned
stop_unLock_join(t) ==
    /\ spc[t] = "unLock"
    /\ cpc = "idle"
    /\ UnLock(t)
    /\ spc' = [spc EXCEPT ![t] = "idle"]
    /\ stopReturned' = TRUE
    /\ UNCHANGED <<cycleFlag, cpc, milliseconds, cycling, starts, ticks,
                   sleeps, stops, ticksAfterStop, sleepsAfterStop,
                   startedAfterStop, topVars, configVars>>

\* line 171, and the call returns
stop_unLock(t) ==
    /\ spc[t] = "unLock"
    /\ UnLock(t)
    /\ spc' = [spc EXCEPT ![t] = "idle"]
    /\ stopReturned' = TRUE
    /\ UNCHANGED <<cycleFlag, cpc, milliseconds, cycling, starts, ticks,
                   sleeps, stops, ticksAfterStop, sleepsAfterStop, startedAfterStop, topVars, configVars>>

(* --------------------------- specification ---------------------------- *)
\* the statements of the main thread whose outcome is fixed
TopSteps ==
    \/ initComponents
    \/ setBaseIds
    \/ connectComponents
    \/ regCommands
    \/ rateGroupDriver_configure
    \/ rateGroup1_configure
    \/ rateGroup2_configure
    \/ rateGroup3_configure
    \/ fileDownlink_configure
    \/ prmDb_configure
    \/ prmDb_readParamFile
    \/ health_setPingEntries
    \/ downlink_setup
    \/ uplink_setup
    \/ gpioCheck
    \/ startTasks
    \/ socketCheck
    \/ comm_configure
    \/ comm_startSocketTask
    \/ stopTasks
    \/ freeThreads
    \/ comm_stopSocketTask
    \/ comm_joinSocketTask
    \/ cmdSeq_deallocateBuffer
    \/ fileUplinkBufferManager_cleanup

\* the statements of the cycling thread
CycleSteps ==
    \/ cycle_lock
    \/ cycle_read
    \/ cycle_unLock
    \/ cycle_while
    \/ cycle_callIsr
    \/ cycle_delay
    \/ cycle_loop_lock
    \/ cycle_loop_read
    \/ cycle_loop_unLock

\* The main program alone: every TopologyState, every outcome of the two
\* allocations and of the GPIO open.
TopNext ==
    \/ \E s \in TopologyState : setupTopology(s)
    \/ \E s \in TopologyState : teardownTopology(s)
    \/ \E ok \in BOOLEAN : cmdSeq_allocateBuffer(ok)
    \/ \E ok \in BOOLEAN : fileUplinkBufferManager_setup(ok)
    \/ \E ok \in BOOLEAN : gpioDriver_open(ok)
    \/ TopSteps

SpecTop == Init /\ [][TopNext]_vars

\* The simulated cycle alone: the cycling thread and every stopping thread.
CycleNext ==
    \/ \E ms \in Periods : startSimulatedCycle(ms)
    \/ CycleSteps
    \/ \E t \in Stoppers : stopSimulatedCycle(t)
    \/ \E t \in Stoppers : stop_lock(t)
    \/ \E t \in Stoppers : stop_write(t)
    \/ \E t \in Stoppers : stop_unLock(t)

SpecCycle == Init /\ [][CycleNext]_vars

\* The simulated cycle under a fair scheduler and a fair mutex: a thread
\* that can take a step takes it, a thread waiting for cycleLock gets it.
\* Whether startSimulatedCycle or stopSimulatedCycle is called at all is
\* up to the program.
StopSteps(t) == stop_lock(t) \/ stop_write(t) \/ stop_unLock(t)

FairCycle ==
    /\ WF_vars(CycleSteps)
    /\ SF_vars(cycle_lock)
    /\ SF_vars(cycle_loop_lock)
    /\ \A t \in Stoppers : WF_vars(StopSteps(t)) /\ SF_vars(stop_lock(t))

SpecCycleFair == SpecCycle /\ FairCycle

\* The same, but the cycling thread is only sure to run while it holds
\* cycleLock: it may stay in blockDrv.callIsr or in Os::Task::delay for
\* ever, or never be started.
FairStop ==
    /\ WF_vars(cycle_read \/ cycle_unLock \/ cycle_loop_read \/ cycle_loop_unLock)
    /\ \A t \in Stoppers : WF_vars(StopSteps(t)) /\ SF_vars(stop_lock(t))

SpecStopFair == SpecCycle /\ FairStop

\* The main program of a project that has edited rateGroupDivisors[]
\* (line 35): the reference list, an empty one, one with a divisor of 0.
DivisorLists == {ReferenceDivisors, <<>>, <<1, 0, 4>>}

InitConfig ==
    /\ Boot
    /\ rateGroupDivisors \in DivisorLists

SpecConfig == InitConfig /\ [][TopNext]_vars

\* The main program interleaved with the simulated cycle. The environment
\* is the nominal one here: both allocations succeed, one TopologyState with
\* and one without an endpoint, one period, one stopping thread; the GPIO
\* open may still fail.
NominalStates == {NoEndpoint, [hostname |-> "127.0.0.1", port |-> 50000]}
NominalStopper == "stopA"

Next ==
    \/ \E s \in NominalStates : setupTopology(s)
    \/ \E s \in NominalStates : teardownTopology(s)
    \/ cmdSeq_allocateBuffer(TRUE)
    \/ fileUplinkBufferManager_setup(TRUE)
    \/ \E ok \in BOOLEAN : gpioDriver_open(ok)
    \/ TopSteps
    \/ startSimulatedCycle(1000)
    \/ CycleSteps
    \/ stopSimulatedCycle(NominalStopper)
    \/ stop_lock(NominalStopper)
    \/ stop_write(NominalStopper)
    \/ stop_unLock(NominalStopper)

Spec == Init /\ [][Next]_vars

(* ---------------------------- properties ------------------------------ *)
Has(x) == Index(calls, x) > 0
Before(x, y) == 0 < Index(calls, x) /\ Index(calls, x) < Index(calls, y)
LastOp == IF history = <<>> THEN "none" ELSE history[Len(history)]
\* the main thread is back in the main program and its last call was ...
SetupDone == pc = "idle" /\ LastOp = "setup"
TeardownDone == pc = "idle" /\ LastOp = "teardown"
\* ... teardownTopology, and the call before it setupTopology
TeardownAfterSetup ==
    /\ TeardownDone
    /\ Len(history) >= 2
    /\ history[Len(history) - 1] = "setup"
\* the calls configureTopology makes
ConfigureCalls ==
    {configureTopologyBody[i] : i \in 1..(Len(configureTopologyBody) - 1)}

\* C1: in every execution of setupTopology all of configureTopology (every
\* call up to and including the GPIO open) has been made before startTasks
\* is called, and the socket task is started only after startTasks.
C1_ConfigureBeforeStart ==
    /\ pc = "startTasks" => \A c \in ConfigureCalls : Has(c)
    /\ Has("startTasks") => \A c \in ConfigureCalls : Before(c, "startTasks")
    /\ Has("comm.startSocketTask") => Before("startTasks", "comm.startSocketTask")

C1_Witness ==
    /\ SetupDone
    /\ Has("comm.startSocketTask")
    /\ activeTasks = "running"

C3_ReleasedExactlyOnce ==
    /\ op = "teardown" =>
           /\ Count(calls, "cmdSeq.deallocateBuffer") <= 1
           /\ Count(calls, "fileUplinkBufferManager.cleanup") <= 1
    /\ TeardownAfterSetup =>
           /\ Count(calls, "cmdSeq.deallocateBuffer") = 1
           /\ Count(calls, "fileUplinkBufferManager.cleanup") = 1
           /\ \A r \in Resources : ~allocated[r]

\* both allocations of the setup had succeeded
C3_Witness ==
    /\ TeardownAfterSetup
    /\ history = <<"setup", "teardown">>
    /\ allocFailed = {}

C5_StopBeforeRelease ==
    LET releases == {"cmdSeq.deallocateBuffer", "fileUplinkBufferManager.cleanup"}
    IN /\ (op = "teardown" /\ pc \in releases)
              => activeTasks = "stopped" /\ socketTask = "stopped"
       /\ \A r \in releases :
              (op = "teardown" /\ (pc = r \/ Has(r))) =>
                  /\ Before("stopTasks", "freeThreads")
                  /\ Before("freeThreads", "comm.stopSocketTask")
                  /\ Before("comm.stopSocketTask", "comm.joinSocketTask")
                  /\ Has(r) => Before("comm.joinSocketTask", r)
       /\ \A r \in releases :
              (TeardownDone /\ Has(r)) =>
                  /\ Before("stopTasks", "freeThreads")
                  /\ Before("freeThreads", "comm.stopSocketTask")
                  /\ Before("comm.stopSocketTask", "comm.joinSocketTask")
                  /\ Before("comm.joinSocketTask", r)

\* the teardown of a topology whose tasks and socket task had been started
C5_Witness ==
    /\ op = "teardown"
    /\ pc = "cmdSeq.deallocateBuffer"
    /\ history = <<"setup">>
    /\ commEndpoint.port # 0
    /\ activeTasks = "stopped"
    /\ socketTask = "stopped"

\* teardownTopology has reached its releases, or has returned
Releasing ==
    \/ /\ op = "teardown"
       /\ \/ pc \in {"cmdSeq.deallocateBuffer", "fileUplinkBufferManager.cleanup"}
          \/ Has("cmdSeq.deallocateBuffer")
    \/ TeardownDone

\* C6 as stated: teardownTopology stops the simulated cycle before it
\* releases, so a tick made once the releases have begun is made with the
\* running flag already false.
C6_Original ==
    [][(Releasing /\ cpc = "callIsr" /\ cpc' = "delay") => ~cycleFlag]_vars

\* C7 as stated: teardownTopology without a setupTopology before it makes
\* neither release call.
C7_Original ==
    ((op = "teardown" \/ TeardownDone)
         /\ \A i \in 1..Len(history) : history[i] # "setup")
        => /\ ~Has("cmdSeq.deallocateBuffer")
           /\ ~Has("fileUplinkBufferManager.cleanup")

\* the calls setupTopology(s) makes when nothing fails
NominalSetupCalls(s) ==
    LET made(x) ==
            /\ x \notin {"if gpio_success", "if valid specification"}
            /\ x \in {"comm.configure", "comm.startSocketTask"}
                   => (s.hostname # NULL /\ s.port # 0)
    IN SelectSeq(setupTopologyBody, made)

\* C8: when the GPIO open fails setupTopology still runs to its end: the
\* failure is printed exactly once, right after the open, and the calls made
\* are otherwise those of the run without the failure, startTasks and the
\* conditional socket task included.
C8_GpioFailureDoesNotAbort ==
    LET notPrintf(x) == x # "printf"
    IN /\ (SetupDone /\ gpio_success) => calls = NominalSetupCalls(state)
       /\ (SetupDone /\ ~gpio_success) =>
              /\ Count(calls, "printf") = 1
              /\ Index(calls, "printf") = Index(calls, "gpioDriver.open") + 1
              /\ SelectSeq(calls, notPrintf) = NominalSetupCalls(state)
              /\ activeTasks = "running"

C8_Witness ==
    /\ SetupDone
    /\ ~gpio_success
    /\ Has("printf")
    /\ Has("comm.startSocketTask")

\* C9 as stated: when an allocation fails no later configuration step runs,
\* startTasks is not called and what was acquired is released.
C9_Original ==
    ((op = "setup" \/ SetupDone) /\ allocFailed # {}) =>
        /\ ~Has("startTasks")
        /\ ~Has("downlink.setup")
        /\ "cmdSeqBuffer" \in allocFailed => ~Has("rateGroupDriver.configure")
        /\ SetupDone => \A r \in Resources : ~allocated[r]

\* C10: once a call of stopSimulatedCycle has returned, a running
\* startSimulatedCycle calls blockDrv.callIsr at most once more and sleeps
\* at most once more before it returns: after that tick and that sleep it
\* is never again at the tick or the sleep.
C10_AtMostOneMoreTick ==
    /\ ticksAfterStop <= 1
    /\ sleepsAfterStop <= 1
    /\ ticksAfterStop = 1 => cpc # "callIsr"
    /\ sleepsAfterStop = 1 => cpc \notin {"callIsr", "delay"}

\* the stop returned between the read of the flag and the tick
C10_Witness ==
    /\ cpc = "idle"
    /\ starts > 0
    /\ stopReturned
    /\ ticksAfterStop = 1
    /\ sleepsAfterStop = 1

\* some thread has called stopSimulatedCycle
StopCalled == \E t \in Stoppers : stops[t] > 0
\* the cycling thread is between its lock() and its unLock()
CycleInCritical == cpc \in {"read", "unLock", "read in loop", "unLock in loop"}
\* a stopping thread is between its lock() and its unLock()
StopInCritical(t) == spc[t] \in {"write", "unLock"}

\* C11: under a fair scheduler and a fair lock, once stopSimulatedCycle has
\* been called every running startSimulatedCycle returns; and
\* startSimulatedCycle returns only when the flag has been set to false.
C11_StopLeadsToReturn ==
    /\ StopCalled ~> (cpc = "idle")
    /\ [][(cpc # "idle" /\ cpc' = "idle") => ~cycleFlag]_vars

\* a start that ticked, was stopped and has returned
C11_Witness ==
    /\ cpc = "idle"
    /\ starts = 1
    /\ ticks >= 2
    /\ stopReturned
    /\ ~cycleFlag

\* C12: stopSimulatedCycle is idempotent. Every return of it, the first or
\* a later one, from whichever thread, leaves the flag false and the lock
\* free, and once one call has returned no further call changes the flag.
C12_StopIdempotent ==
    /\ [](stopReturned => ~cycleFlag)
    /\ [][stopReturned => cycleFlag' = cycleFlag]_vars
    /\ [][\A t \in Stoppers :
              (spc[t] = "unLock" /\ spc'[t] = "idle")
                  => (~cycleFlag' /\ cycleLock' = "free")]_vars

\* three calls have returned, two of them from the same thread
C12_Witness ==
    /\ stops["stopA"] = 2
    /\ stops["stopB"] = 1
    /\ \A t \in Stoppers : spc[t] = "idle"
    /\ ~cycleFlag
    /\ cycleLock = "free"

\* C13: the shape of the loop. The flag is read with cycleLock held; a tick
\* follows a test of a value read as true, with no other step of the thread
\* but the unLock between; after a tick comes one sleep, then lock, read,
\* unLock and the test again; the function returns only from a test of a
\* value read as false.
C13_LoopShape ==
    /\ [](cpc \in {"read", "read in loop"} => cycleLock = "cycle")
    /\ [](cpc = "callIsr" => cycling)
    /\ [](IF cpc = "delay" THEN ticks = Bump(sleeps) ELSE ticks = sleeps)
    /\ [][cpc' # cpc =>
              /\ cpc' = "callIsr" => (cpc = "while" /\ cycling)
              /\ cpc' = "while" => cpc \in {"unLock", "unLock in loop"}
              /\ cpc' = "unLock" => (cpc = "read" /\ cycling' = cycleFlag)
              /\ cpc' = "unLock in loop"
                     => (cpc = "read in loop" /\ cycling' = cycleFlag)
              /\ cpc = "callIsr" => (cpc' = "delay" /\ ticks' = Bump(ticks))
              /\ cpc = "delay"
                     => (cpc' = "lock in loop" /\ sleeps' = Bump(sleeps))
              /\ cpc = "lock in loop" => cpc' = "read in loop"
              /\ cpc' = "idle" => (cpc = "while" /\ ~cycling)]_vars
    /\ [][(cycling' # cycling /\ cpc # "idle")
              => cpc \in {"read", "read in loop"}]_vars

\* two full iterations, then a read of false and the return
C13_Witness ==
    /\ cpc = "idle"
    /\ starts = 1
    /\ ticks = 2
    /\ sleeps = 2
    /\ ~cycling

\* C14: cycleFlag is read and written only by the holder of cycleLock, at
\* most one thread is between its lock() and its unLock(), and the cycling
\* thread does not hold the lock in the tick or the sleep.
C14_FlagUnderLock ==
    /\ [](cpc \in {"read", "read in loop"} => cycleLock = "cycle")
    /\ [](\A t \in Stoppers : spc[t] = "write" => cycleLock = t)
    /\ [](Cardinality({t \in Stoppers : StopInCritical(t)})
              + (IF CycleInCritical THEN 1 ELSE 0) <= 1)
    /\ [](CycleInCritical <=> cycleLock = "cycle")
    /\ [](\A t \in Stoppers : StopInCritical(t) <=> cycleLock = t)
    /\ [](cpc \in {"callIsr", "delay"} => cycleLock # "cycle")
    /\ [][cycleFlag' # cycleFlag
              => \E t \in Stoppers : spc[t] = "write" /\ cycleLock = t]_vars
    /\ [][cycling' # cycling /\ cpc # "idle" => cycleLock = "cycle"]_vars

\* a stopping thread writes the flag while the loop sleeps
C14_Witness ==
    /\ cpc = "delay"
    /\ spc["stopA"] = "write"
    /\ cycleLock = "stopA"
    /\ spc["stopB"] = "lock"

\* C15: under a fair lock every call of stopSimulatedCycle returns, whether
\* the cycling thread stays in the tick or the sleep for ever, never
\* returns, or was never started.
C15_StopReturns ==
    \A t \in Stoppers : (spc[t] # "idle") ~> (spc[t] = "idle")

\* the stop has returned and the loop is still in its sleep
C15_Witness ==
    /\ spc["stopA"] = "idle"
    /\ stops["stopA"] = 1
    /\ stopReturned
    /\ cpc = "delay"
    /\ cycling

\* C16: cycleFlag is true at the start, and until stopSimulatedCycle is
\* called, and only ever goes from true to false, whatever startSimulatedCycle, stopSimulatedCycle, setupTopology
\* and teardownTopology do and however they interleave.
C16_FlagMonotone ==
    /\ [](~StopCalled => cycleFlag)
    /\ [][~cycleFlag => ~cycleFlag']_vars

\* the flag is false after a second start and a setup and teardown
C16_Witness ==
    /\ ~cycleFlag
    /\ starts = 2
    /\ cpc # "idle"
    /\ TeardownAfterSetup

\* C17 as stated: a release is only made of a resource that is allocated,
\* also by the second of two teardowns after a setup. (The program here
\* begins with a setupTopology and the allocations of its last
\* setupTopology succeeded.)
C17_Original ==
    [][(history # <<>> /\ history[1] = "setup" /\ allocFailed = {} /\ pc' # pc)
           => /\ pc = "cmdSeq.deallocateBuffer" => allocated["cmdSeqBuffer"]
              /\ pc = "fileUplinkBufferManager.cleanup"
                     => allocated["uplinkBufferPool"]]_vars

\* a divisor list that is empty or holds a value below 1
Malformed(divisors) ==
    \/ divisors = <<>>
    \/ \E i \in 1..Len(divisors) : divisors[i] < 1

C19_NoRestart ==
    startedAfterStop =>
        /\ ticks = 0
        /\ sleeps = 0
        /\ cpc \in {"lock", "read", "unLock", "while", "idle"}
        /\ cpc \in {"unLock", "while"} => ~cycling

\* the second start, begun after the stop, has returned
C19_Witness ==
    /\ startedAfterStop
    /\ starts = 2
    /\ cpc = "idle"
    /\ ticks = 0

\* no setupTopology of this program has started the socket task
NoSocketTaskStarted == commEndpoint = NoEndpoint

====
